---- MODULE Spec2Model ----
(***************************************************************************)
(* taskctl: the task coordination core (worktree-pool variant).            *)
(*                                                                         *)
(* The store (tasks, task_deps, worktrees, plan status), the dependency    *)
(* graph engine, the parallel scheduler and the CLI commands that change   *)
(* task / worktree state, as state machines over one set of variables.     *)
(*                                                                         *)
(*   Spec      - CLI commands run one after another on a persisted plan    *)
(*   SpecCap   - the scheduler and `task start` under any worktree_count   *)
(*   SpecDeps  - planner persistence and the task editing commands         *)
(*   SpecConc  - two scheduler invocations and their awaits, interleaved   *)
(*   SpecPr    - the `pr` commands, `task start` / `task complete` and the *)
(*               scheduler's task operations                               *)
(*   SpecWt    - the worktree lifecycle: assignment, release, `wt reset`   *)
(*   SpecPlan  - the plan lifecycle: generate, approve, start, progress    *)
(*   SpecFind  - the id-prefix lookups of tasks and plans                  *)
(*   SpecCurrent - get_current_task by session id and branch name          *)
(*   SpecSync  - `pr sync` against the states GitHub can report            *)
(*   SpecBranch - the branch names the scheduler generates                 *)
(*   SpecEdit  - `task edit` between the steps of one scheduler run        *)
(*   SpecGraph - buildDependencyGraph and getCriticalPath on any small plan*)
(*   SpecReady - getReadyTasks on a graph and a completed set              *)
(*   SpecState - the scheduler's operations on one SchedulerState          *)
(*   SpecLive  - the scheduler cycle repeated, active tasks being completed*)
(***************************************************************************)
EXTENDS Integers, Sequences, FiniteSets, TLC

\* ---------------------------------------------------------------- bounds
MaxTasks == 3
MaxWorktrees == 2
MaxDependsOn == 2
MaxLevelOpt == 1
MaxPlanTasks == 2
MaxDeps == 2
MaxPrTasks == 2

\* ------------------------------------------------------------- constants
NoTask == 0
NoWorktree == 0
NoBranch == 0
UnknownAiId == 0

TaskIds == 1..MaxTasks
WorktreeIds == 1..MaxWorktrees
Procs == {1, 2}

ActiveTaskStatuses == {"assigned", "in_progress", "pr_created", "in_review"}
ActiveWorktreeStatuses == {"assigned", "in_progress", "pr_pending"}

VARIABLES
  planStatus,     \* plans.status of the one plan
  tasks,          \* tasks table: id -> row (exists = FALSE: no such row)
  nextTaskId,     \* ids are ULIDs: increasing in creation order, never reused
  deps,           \* task_deps table: sequence of <<taskId, dependsOnId>> rows
  worktrees,      \* worktrees table: id -> row (ids in name order)
  worktreeCount,  \* projects.worktree_count
  sched,          \* per scheduler invocation: position, SchedulerState, batch
  prs,            \* prs table: sequence of rows [taskId, status] in insert order
  call            \* the last read-only lookup: its arguments and its result

vars == <<planStatus, tasks, nextTaskId, deps, worktrees, worktreeCount, sched, prs,
          call>>

\* no lookup has run
NoCall == [op |-> "none"]

\* ----------------------------------------------------------------- rows
NoRow == [exists |-> FALSE, status |-> "pending", level |-> 0,
          worktreeId |-> NoWorktree, branchName |-> NoBranch]

NewTaskRow(level, status) ==
  [exists |-> TRUE, status |-> status, level |-> level,
   worktreeId |-> NoWorktree, branchName |-> NoBranch]

AvailableRow == [status |-> "available", taskId |-> NoTask, branch |-> NoBranch]

Max(a, b) == IF a >= b THEN a ELSE b
Min(a, b) == IF a <= b THEN a ELSE b

RECURSIVE SeqToSet(_)
SeqToSet(s) == IF s = <<>> THEN {} ELSE {Head(s)} \cup SeqToSet(Tail(s))

\* ---------------------------------------------------- task repository
RECURSIVE OrderByLevelId(_, _)
OrderByLevelId(ts, S) ==
  IF S = {} THEN <<>>
  ELSE LET m == CHOOSE x \in S : \A y \in S :
                  \/ ts[x].level < ts[y].level
                  \/ (ts[x].level = ts[y].level /\ x <= y)
       IN <<m>> \o OrderByLevelId(ts, S \ {m})

\* select ... from tasks where plan_id = ? order by level, id
getTasksByPlan(ts) == OrderByLevelId(ts, {t \in DOMAIN ts : ts[t].exists})

\* select ... from task_deps where task_id = ?
getTaskDependencies(ds, t) == SelectSeq(ds, LAMBDA e : e[1] = t)

RECURSIVE ConcatDeps(_, _)
ConcatDeps(ds, order) ==
  IF order = <<>> THEN <<>>
  ELSE getTaskDependencies(ds, Head(order)) \o ConcatDeps(ds, Tail(order))

getAllDependenciesForPlan(ts, ds) == ConcatDeps(ds, getTasksByPlan(ts))

updateTaskStatus(ts, t, status) ==
  IF ts[t].exists THEN [ts EXCEPT ![t].status = status] ELSE ts

\* insert into task_deps: UNIQUE(task_id, depends_on_id) rejects a second row
DepInsertOk(ds, t, d) == <<t, d>> \notin SeqToSet(ds)
addTaskDependency(ds, t, d) == Append(ds, <<t, d>>)

removeTaskDependency(ds, t, d) == SelectSeq(ds, LAMBDA e : e # <<t, d>>)

\* delete from tasks: ON DELETE CASCADE removes the edges on either side
deleteTask(ts, t) == [ts EXCEPT ![t] = NoRow]
CascadeDeps(ds, t) == SelectSeq(ds, LAMBDA e : e[1] # t /\ e[2] # t)

\* ------------------------------------------------------ pr repository
NoPr == 0

RECURSIVE FirstPrOf(_, _, _)
FirstPrOf(ps, t, i) ==
  IF i > Len(ps) THEN NoPr
  ELSE IF ps[i].taskId = t THEN i ELSE FirstPrOf(ps, t, i + 1)

\* a lookup that does not see a PR that is closed or merged
getPrByTaskId_openOnly(ps, t) ==
  LET i == FirstPrOf(ps, t, 1)
  IN IF i # NoPr /\ ps[i].status \in {"closed", "merged"} THEN NoPr ELSE i

\* select ... from prs where task_id = ? limit 1: the id (row position) or NoPr
getPrByTaskId(ps, t) == FirstPrOf(ps, t, 1)

\* insert into prs
createPrRecord(ps, t, status) == Append(ps, [taskId |-> t, status |-> status])

updatePrStatus(ps, id, status) == [ps EXCEPT ![id].status = status]

\* prs.task_id ... ON DELETE CASCADE
CascadePrs(ps, t) == SelectSeq(ps, LAMBDA r : r.taskId # t)

\* ------------------------------------------------ worktree repository
RECURSIVE OrderByName(_)
OrderByName(S) ==
  IF S = {} THEN <<>>
  ELSE LET m == CHOOSE x \in S : \A y \in S : x <= y
       IN <<m>> \o OrderByName(S \ {m})

getAvailableWorktrees(ws) ==
  OrderByName({w \in DOMAIN ws : ws[w].status = "available"})

assignWorktree(ws, w, t, branch) ==
  [ws EXCEPT ![w] = [status |-> "assigned", taskId |-> t, branch |-> branch]]

\* a release that writes the status alone, as updateWorktreeStatus does
releaseWorktree_statusOnly(ws, w) == [ws EXCEPT ![w].status = "available"]

releaseWorktree(ws, w) == [ws EXCEPT ![w] = AvailableRow]

updateWorktreeStatus(ws, w, status) == [ws EXCEPT ![w].status = status]

\* ---------------------------------------------------- dependency graph
RECURSIVE DepsInGraph_noSelf(_, _, _)
\* node.dependencies without the rows of a task on itself
DepsInGraph_noSelf(depRows, ids, t) ==
  IF depRows = <<>> THEN <<>>
  ELSE LET e == Head(depRows)
           rest == DepsInGraph_noSelf(Tail(depRows), ids, t)
       IN IF e[1] = t /\ e[2] # t /\ e[1] \in ids /\ e[2] \in ids
          THEN <<e[2]>> \o rest ELSE rest

RECURSIVE DepsInGraph(_, _, _)
\* node.dependencies of t: the dependsOnId of each row of t, in row order,
\* rows with an endpoint outside the graph skipped
DepsInGraph(depRows, ids, t) ==
  IF depRows = <<>> THEN <<>>
  ELSE LET e == Head(depRows)
           rest == DepsInGraph(Tail(depRows), ids, t)
       IN IF e[1] = t /\ e[1] \in ids /\ e[2] \in ids THEN <<e[2]>> \o rest ELSE rest

RECURSIVE DependentsInGraph(_, _, _)
DependentsInGraph(depRows, ids, d) ==
  IF depRows = <<>> THEN <<>>
  ELSE LET e == Head(depRows)
           rest == DependentsInGraph(Tail(depRows), ids, d)
       IN IF e[2] = d /\ e[1] \in ids /\ e[2] \in ids THEN <<e[1]>> \o rest ELSE rest

RECURSIVE visit(_, _, _, _)
RECURSIVE visitDependencies(_, _, _, _, _)
\* st = [level, visited, err, ret]: node levels, the visited set, the task
\* named by the thrown error (NoTask: nothing thrown), the returned level
visit(dependencies, st, nodeId, ancestors) ==
  IF st.err # NoTask THEN st
  ELSE IF nodeId \in ancestors THEN [st EXCEPT !.err = nodeId]
  ELSE IF nodeId \in st.visited THEN [st EXCEPT !.ret = st.level[nodeId]]
  ELSE LET st2 == visitDependencies(dependencies, [st EXCEPT !.ret = -1],
                                    dependencies[nodeId], ancestors \cup {nodeId}, -1)
       IN IF st2.err # NoTask THEN st2
          ELSE [st2 EXCEPT !.level[nodeId] = st2.ret + 1,
                           !.visited = @ \cup {nodeId},
                           !.ret = st2.ret + 1]

RECURSIVE visitDependencies_lastWins(_, _, _, _, _)
\* a loop that keeps the level of the last dependency, not the highest
visitDependencies_lastWins(dependencies, st, depIds, ancestors, maxDepLevel) ==
  IF st.err # NoTask THEN st
  ELSE IF depIds = <<>> THEN [st EXCEPT !.ret = maxDepLevel]
  ELSE LET st2 == visit(dependencies, st, Head(depIds), ancestors)
       IN IF st2.err # NoTask THEN st2
          ELSE visitDependencies_lastWins(dependencies, st2, Tail(depIds), ancestors,
                                          st2.ret)

\* the loop over node.dependencies; maxDepLevel is carried in the last argument
visitDependencies(dependencies, st, depIds, ancestors, maxDepLevel) ==
  IF st.err # NoTask THEN st
  ELSE IF depIds = <<>> THEN [st EXCEPT !.ret = maxDepLevel]
  ELSE LET st2 == visit(dependencies, st, Head(depIds), ancestors)
       IN IF st2.err # NoTask THEN st2
          ELSE visitDependencies(dependencies, st2, Tail(depIds), ancestors,
                                 Max(maxDepLevel, st2.ret))

RECURSIVE calculateLevelsLoop(_, _, _)
calculateLevelsLoop(dependencies, st, order) ==
  IF order = <<>> \/ st.err # NoTask THEN st
  ELSE IF Head(order) \in st.visited
       THEN calculateLevelsLoop(dependencies, st, Tail(order))
       ELSE calculateLevelsLoop(dependencies,
                                visit(dependencies, st, Head(order), {}),
                                Tail(order))

calculateLevels(order, dependencies) ==
  calculateLevelsLoop(dependencies,
                      [level |-> [t \in SeqToSet(order) |-> 0], visited |-> {},
                       err |-> NoTask, ret |-> 0],
                      order)

RECURSIVE MaxLevelOf(_, _)
MaxLevelOf(level, order) ==
  IF order = <<>> THEN 0 ELSE Max(level[Head(order)], MaxLevelOf(level, Tail(order)))

\* taskRows: id -> row for the tasks given; order: the tasks in the order given
buildDependencyGraph(taskRows, order, depRows) ==
  LET ids == SeqToSet(order)
      dependencies == [t \in ids |-> DepsInGraph(depRows, ids, t)]
      dependents == [t \in ids |-> DependentsInGraph(depRows, ids, t)]
      st == calculateLevels(order, dependencies)
  IN [ok |-> st.err = NoTask,
      cycle |-> st.err,
      order |-> order,
      task |-> [t \in ids |-> taskRows[t]],
      dependencies |-> dependencies,
      dependents |-> dependents,
      level |-> st.level,
      maxLevel |-> MaxLevelOf(st.level, order)]

GraphLevels(graph, l) == SelectSeq(graph.order, LAMBDA t : graph.level[t] = l)

\* the graph of the persisted plan
StoreGraph(ts, ds) ==
  buildDependencyGraph(ts, getTasksByPlan(ts), getAllDependenciesForPlan(ts, ds))

\* a getReadyTasks without the skip of the tasks in completedTaskIds
getReadyTasks_noCompletedSkip(graph, completedTaskIds) ==
  SelectSeq(graph.order, LAMBDA t :
    /\ graph.task[t].status \in {"pending", "ready"}
    /\ \A i \in 1..Len(graph.dependencies[t]) :
         graph.dependencies[t][i] \in completedTaskIds)

getReadyTasks(graph, completedTaskIds) ==
  SelectSeq(graph.order, LAMBDA t :
    /\ t \notin completedTaskIds
    /\ graph.task[t].status \in {"pending", "ready"}
    /\ \A i \in 1..Len(graph.dependencies[t]) :
         graph.dependencies[t][i] \in completedTaskIds)

RECURSIVE HighestDependency_last(_, _, _, _)
\* a loop that moves on to a later dependency of the same level
HighestDependency_last(graph, depIds, nextId, maxLevel) ==
  IF depIds = <<>> THEN nextId
  ELSE IF graph.level[Head(depIds)] >= maxLevel
       THEN HighestDependency_last(graph, Tail(depIds), Head(depIds),
                                   graph.level[Head(depIds)])
       ELSE HighestDependency_last(graph, Tail(depIds), nextId, maxLevel)

RECURSIVE HighestDependency(_, _, _, _)
\* getCriticalPath, the loop over node.dependencies; nextId and maxLevel are
\* carried in the last two arguments (NoTask: nextId undefined)
HighestDependency(graph, depIds, nextId, maxLevel) ==
  IF depIds = <<>> THEN nextId
  ELSE IF graph.level[Head(depIds)] > maxLevel
       THEN HighestDependency(graph, Tail(depIds), Head(depIds), graph.level[Head(depIds)])
       ELSE HighestDependency(graph, Tail(depIds), nextId, maxLevel)

RECURSIVE CriticalPathFrom(_, _, _)
\* getCriticalPath, the while loop: path.unshift(node.task), then on to nextId
CriticalPathFrom(graph, currentId, path) ==
  IF currentId = NoTask THEN path
  ELSE CriticalPathFrom(graph,
                        HighestDependency(graph, graph.dependencies[currentId], NoTask, -1),
                        <<currentId>> \o path)

getCriticalPath(graph) ==
  IF graph.order = <<>> THEN <<>>
  ELSE LET maxLevelTasks == GraphLevels(graph, graph.maxLevel)
       IN IF maxLevelTasks = <<>> THEN <<>>
          ELSE CriticalPathFrom(graph, maxLevelTasks[1], <<>>)

\* -------------------------------------------------------------- planner
\* A planner response is a sequence of TaskPlan.dependsOn lists: the task at
\* position i carries the planner id i; UnknownAiId is an id of no task.
RECURSIVE getLevel(_, _, _, _)
RECURSIVE getLevelDeps(_, _, _, _, _)
\* st = [level, has, err, ret]: the levels map and its key set, the task named
\* by the thrown error (NoTask: nothing thrown), the returned level
getLevel(resp, st, taskId, visited) ==
  IF st.err # NoTask THEN st
  ELSE IF taskId \in st.has THEN [st EXCEPT !.ret = st.level[taskId]]
  ELSE IF taskId \in visited THEN [st EXCEPT !.err = taskId]
  ELSE IF taskId \notin 1..Len(resp) THEN [st EXCEPT !.ret = 0]
  ELSE IF resp[taskId] = <<>>
       THEN [st EXCEPT !.level[taskId] = 0, !.has = @ \cup {taskId}, !.ret = 0]
  ELSE LET st2 == getLevelDeps(resp, st, resp[taskId], visited \cup {taskId}, -1)
       IN IF st2.err # NoTask THEN st2
          ELSE [st2 EXCEPT !.level[taskId] = st2.ret + 1,
                           !.has = @ \cup {taskId},
                           !.ret = st2.ret + 1]

\* Math.max(...task.dependsOn.map(getLevel)); the maximum so far is carried
getLevelDeps(resp, st, depIds, visited, maxDepLevel) ==
  IF st.err # NoTask THEN st
  ELSE IF depIds = <<>> THEN [st EXCEPT !.ret = maxDepLevel]
  ELSE LET st2 == getLevel(resp, st, Head(depIds), visited)
       IN IF st2.err # NoTask THEN st2
          ELSE getLevelDeps(resp, st2, Tail(depIds), visited, Max(maxDepLevel, st2.ret))

RECURSIVE calculateTaskLevelsLoop(_, _, _)
calculateTaskLevelsLoop(resp, st, i) ==
  IF i > Len(resp) \/ st.err # NoTask THEN st
  ELSE calculateTaskLevelsLoop(resp, getLevel(resp, st, i, {}), i + 1)

calculateTaskLevels(resp) ==
  calculateTaskLevelsLoop(resp,
                          [level |-> [i \in 1..Len(resp) |-> 0], has |-> {},
                           err |-> NoTask, ret |-> 0],
                          1)

\* first pass of generateAndSavePlan: one createTask per planner task
CreatePlanTasks(ts, next, resp, levels) ==
  [t \in DOMAIN ts |->
     IF t \in next..(next + Len(resp) - 1)
     THEN LET i == t - next + 1
              level == IF i \in levels.has THEN levels.level[i] ELSE 0
          IN NewTaskRow(level, IF level = 0 THEN "ready" ELSE "pending")
     ELSE ts[t]]

RECURSIVE InsertPlanDeps(_, _, _, _, _)
\* second pass: acc = [deps, ok]; the insert that violates UNIQUE throws and
\* ends the pass with the rows inserted so far
InsertPlanDeps(acc, next, resp, i, j) ==
  IF ~acc.ok \/ i > Len(resp) THEN acc
  ELSE IF j > Len(resp[i]) THEN InsertPlanDeps(acc, next, resp, i + 1, 1)
  ELSE LET depAiId == resp[i][j]
           taskId == next + i - 1
           depId == next + depAiId - 1
       IN IF depAiId \notin 1..Len(resp)
          THEN InsertPlanDeps(acc, next, resp, i, j + 1)
          ELSE IF DepInsertOk(acc.deps, taskId, depId)
               THEN InsertPlanDeps([acc EXCEPT !.deps = addTaskDependency(@, taskId, depId)],
                                   next, resp, i, j + 1)
               ELSE [acc EXCEPT !.ok = FALSE]

\* generateAndSavePlan after the planner has answered resp
\* result: the store afterwards and whether the function returned normally
SavePlan(ts, ds, next, resp) ==
  LET levels == calculateTaskLevels(resp)
      created == CreatePlanTasks(ts, next, resp, levels)
      ins == InsertPlanDeps([deps |-> ds, ok |-> TRUE], next, resp, 1, 1)
  IN IF levels.err # NoTask
     THEN [ok |-> FALSE, tasks |-> ts, deps |-> ds, nextTaskId |-> next,
           planStatus |-> "planning"]
     ELSE [ok |-> ins.ok, tasks |-> created, deps |-> ins.deps,
           nextTaskId |-> next + Len(resp),
           planStatus |-> IF ins.ok THEN "ready" ELSE "planning"]

DependsOnLists(k) ==
  UNION {[1..n -> 0..k] : n \in 0..MaxDependsOn}

PlanResponses(k) == [1..k -> DependsOnLists(k)]

\* ------------------------------------------------------------ scheduler
\* the branch name the scheduler gives task t, in plans whose tasks differ
\* in short id or slug: one name per task (SpecBranch has the other plans)
ScheduledBranch(t) == t

\* state.assignedWorktrees as initializeScheduler fills it
AssignedWorktrees(ts) ==
  [t \in {x \in DOMAIN ts : /\ ts[x].exists
                            /\ ts[x].status \in ActiveTaskStatuses
                            /\ ts[x].worktreeId # NoWorktree} |-> ts[t].worktreeId]

initializeScheduler(ts, ds) ==
  LET order == getTasksByPlan(ts)
      ids == SeqToSet(order)
      inProgress == {t \in ids : ts[t].status \in ActiveTaskStatuses}
  IN [graph |-> buildDependencyGraph(ts, order, getAllDependenciesForPlan(ts, ds)),
      completedTaskIds |-> {t \in ids : ts[t].status = "completed"},
      inProgressTaskIds |-> inProgress,
      assignedWorktrees |-> AssignedWorktrees(ts)]

\* a getNextBatch without the concurrency limit
getNextBatch_noLimit(maxConcurrent, state, ws) ==
  LET readyTasks == getReadyTasks(state.graph, state.completedTaskIds)
      pendingReadyTasks == SelectSeq(readyTasks, LAMBDA t : t \notin state.inProgressTaskIds)
      availableWorktrees == getAvailableWorktrees(ws)
      slotsAvailable == Min(Len(availableWorktrees), Len(pendingReadyTasks))
  IN [i \in 1..slotsAvailable |->
        [task |-> pendingReadyTasks[i],
         worktree |-> availableWorktrees[i],
         branchName |-> ScheduledBranch(pendingReadyTasks[i])]]

getNextBatch(maxConcurrent, state, ws) ==
  LET readyTasks == getReadyTasks(state.graph, state.completedTaskIds)
      pendingReadyTasks == SelectSeq(readyTasks, LAMBDA t : t \notin state.inProgressTaskIds)
      availableWorktrees == getAvailableWorktrees(ws)
      slotsAvailable == Min(Min(maxConcurrent - Cardinality(state.inProgressTaskIds),
                                Len(availableWorktrees)),
                            Len(pendingReadyTasks))
  IN IF pendingReadyTasks = <<>> \/ slotsAvailable <= 0 THEN <<>>
     ELSE [i \in 1..slotsAvailable |->
             [task |-> pendingReadyTasks[i],
              worktree |-> availableWorktrees[i],
              branchName |-> ScheduledBranch(pendingReadyTasks[i])]]

\* assignTaskToWorktree, the two store updates
AssignWorktreeRow(ws, scheduled) ==
  assignWorktree(ws, scheduled.worktree, scheduled.task, scheduled.branchName)
AssignTaskRow(ts, scheduled) == updateTaskStatus(ts, scheduled.task, "assigned")

\* assignTaskToWorktree, the update of the SchedulerState
AssignState(state, scheduled) ==
  [state EXCEPT !.inProgressTaskIds = @ \cup {scheduled.task},
                !.assignedWorktrees = (scheduled.task :> scheduled.worktree) @@ @]

\* an isComplete that asks only that nothing is in progress
isComplete_nothingInProgress(state) == state.inProgressTaskIds = {}

isComplete(state) ==
  Cardinality(state.completedTaskIds) = Len(state.graph.order)

hasWorkAvailable(state) ==
  \E i \in 1..Len(getReadyTasks(state.graph, state.completedTaskIds)) :
    getReadyTasks(state.graph, state.completedTaskIds)[i] \notin state.inProgressTaskIds

RECURSIVE AssignBatchWorktrees(_, _, _)
AssignBatchWorktrees(ws, batch, n) ==
  IF n = 0 THEN ws
  ELSE AssignWorktreeRow(AssignBatchWorktrees(ws, batch, n - 1), batch[n])

RECURSIVE AssignBatchTasks(_, _, _)
AssignBatchTasks(ts, batch, n) ==
  IF n = 0 THEN ts
  ELSE AssignTaskRow(AssignBatchTasks(ts, batch, n - 1), batch[n])

\* ------------------------------------------------------- initial states
EmptyTasks == [t \in TaskIds |-> NoRow]
InitWorktrees == [w \in WorktreeIds |-> AvailableRow]

IdleSched == [p \in Procs |-> [pc |-> "idle"]]

\* planner responses of k tasks: no dependencies, a chain, a chain listed
\* last task first, one root with k-1 dependents, one task depending on the
\* first MaxDependsOn others
Independent(k) == [i \in 1..k |-> <<>>]
Chain(k) == [i \in 1..k |-> IF i = 1 THEN <<>> ELSE <<i - 1>>]
ReverseChain(k) == [i \in 1..k |-> IF i = k THEN <<>> ELSE <<i + 1>>]
FanOut(k) == [i \in 1..k |-> IF i = 1 THEN <<>> ELSE <<1>>]
FanIn(k) == [i \in 1..k |-> IF i < k THEN <<>>
                            ELSE [j \in 1..Min(k - 1, MaxDependsOn) |-> j]]

PlanShapes ==
  UNION {{Independent(k), Chain(k), ReverseChain(k), FanOut(k), FanIn(k)} :
         k \in 1..MaxTasks}

\* the store after `taskctl init`, `wt init` and one successful
\* `plan ai generate`: every worktree available, the plan as persisted
InitStore(resp, c) ==
  LET r == SavePlan(EmptyTasks, <<>>, 1, resp)
  IN /\ r.ok
     /\ planStatus = r.planStatus
     /\ tasks = r.tasks
     /\ nextTaskId = r.nextTaskId
     /\ deps = r.deps
     /\ worktrees = InitWorktrees
     /\ worktreeCount = c
     /\ sched = IdleSched
     /\ prs = <<>>
     /\ call = NoCall

Init == \E resp \in PlanShapes : InitStore(resp, MaxWorktrees)

\* ------------------------------------------------------- exec commands
\* `exec parallel [-n n]`: initialise, next_batch, assign every pairing.
\* nOk pairings are assigned; when nOk < Len(batch) the git calls of the next
\* pairing fail and the command exits there.
ExecParallel ==
  LET state == initializeScheduler(tasks, deps)
  IN /\ state.graph.ok
     /\ ~isComplete(state)
     /\ hasWorkAvailable(state)
     /\ \E n \in 1..worktreeCount :
          LET batch == getNextBatch(n, state, worktrees)
          IN \E nOk \in 1..Len(batch) :
               /\ worktrees' = AssignBatchWorktrees(worktrees, batch, nOk)
               /\ tasks' = AssignBatchTasks(tasks, batch, nOk)
     /\ UNCHANGED <<planStatus, nextTaskId, deps, worktreeCount, sched, prs, call>>

\* `exec task <task-id>`
ExecTask(t) ==
  /\ tasks[t].exists
  /\ tasks[t].worktreeId = NoWorktree
  /\ LET state == initializeScheduler(tasks, deps)
         batch == getNextBatch(worktreeCount, state, worktrees)
     IN /\ state.graph.ok
        /\ \E i \in 1..Len(batch) :
             /\ batch[i].task = t
             /\ worktrees' = AssignWorktreeRow(worktrees, batch[i])
             /\ tasks' = AssignTaskRow(tasks, batch[i])
  /\ UNCHANGED <<planStatus, nextTaskId, deps, worktreeCount, sched, prs, call>>

\* ------------------------------------------------------- task commands
\* `task start <task-id>`
TaskStart(t) ==
  LET available == getAvailableWorktrees(worktrees)
  IN /\ tasks[t].exists
     /\ tasks[t].worktreeId = NoWorktree
     /\ available # <<>>
     /\ worktrees' = assignWorktree(worktrees, available[1], t, ScheduledBranch(t))
     /\ tasks' = [tasks EXCEPT ![t].worktreeId = available[1],
                               ![t].branchName = ScheduledBranch(t),
                               ![t].status = "in_progress"]
     /\ UNCHANGED <<planStatus, nextTaskId, deps, worktreeCount, sched, prs, call>>

\* `task complete <task-id>`
TaskComplete(t) ==
  /\ tasks[t].exists
  /\ tasks' = updateTaskStatus(tasks, t, "completed")
  /\ UNCHANGED <<planStatus, nextTaskId, deps, worktrees, worktreeCount, sched, prs, call>>

\* ---------------------------------------------------- worktree commands
\* `wt reset <worktree-id>`
WtReset(w) ==
  /\ worktrees' = releaseWorktree(worktrees, w)
  /\ UNCHANGED <<planStatus, tasks, nextTaskId, deps, worktreeCount, sched, prs, call>>

Next ==
  \/ ExecParallel
  \/ \E t \in TaskIds : ExecTask(t)
  \/ \E t \in TaskIds : TaskStart(t)
  \/ \E t \in TaskIds : TaskComplete(t)
  \/ \E w \in WorktreeIds : WtReset(w)

Spec == Init /\ [][Next]_vars

\* the scheduler and `task start` alone, under any configured worktree_count
\* (`taskctl init --worktrees c` followed by `wt init MaxWorktrees`)
InitCap == \E resp \in PlanShapes, c \in 1..MaxWorktrees : InitStore(resp, c)

NextCap ==
  \/ ExecParallel
  \/ \E t \in TaskIds : ExecTask(t)
  \/ \E t \in TaskIds : TaskStart(t)

SpecCap == InitCap /\ [][NextCap]_vars

\* ------------------------------------------- interleaved invocations
\* Two `exec parallel` invocations on the same project, each a process of
\* its own; a step is what runs between two awaits that touch the store.
\* pc: idle -> batch -> assignWorktree <-> assignTask -> done

\* initializeScheduler and the early exits of execParallel
SchedInit(p, n) ==
  LET state == initializeScheduler(tasks, deps)
      proceed == state.graph.ok /\ ~isComplete(state) /\ hasWorkAvailable(state)
  IN /\ sched[p].pc = "idle"
     /\ sched' = [sched EXCEPT ![p] =
                    IF proceed
                    THEN [pc |-> "batch", maxConcurrent |-> n, state |-> state,
                          batch |-> <<>>, i |-> 0]
                    ELSE [pc |-> "done"]]
     /\ UNCHANGED <<planStatus, tasks, nextTaskId, deps, worktrees, worktreeCount, prs, call>>

\* a getNextBatch that reserves the tasks it hands out
NextBatchState_reserving(state, batch) ==
  [state EXCEPT !.inProgressTaskIds =
                   @ \cup {batch[i].task : i \in 1..Len(batch)}]

\* the SchedulerState after getNextBatch: it reads the graph and the sets,
\* builds new arrays and writes to none of them
NextBatchState(state, batch) == state

\* getNextBatch: reads the available worktrees
SchedNextBatch(p) ==
  /\ sched[p].pc = "batch"
  /\ LET batch == getNextBatch(sched[p].maxConcurrent, sched[p].state, worktrees)
     IN sched' = [sched EXCEPT ![p] =
                    IF batch = <<>> THEN [pc |-> "done"]
                    ELSE [@ EXCEPT !.pc = "assignWorktree", !.batch = batch, !.i = 1,
                                   !.state = NextBatchState(@, batch)]]
  /\ UNCHANGED <<planStatus, tasks, nextTaskId, deps, worktrees, worktreeCount, prs, call>>

\* assignTaskToWorktree up to `await assignWorktree(...)`; gitOk = FALSE: the
\* branch creation and the fallback checkout both throw
SchedAssignWorktree(p, gitOk) ==
  /\ sched[p].pc = "assignWorktree"
  /\ IF gitOk
     THEN /\ worktrees' = AssignWorktreeRow(worktrees, sched[p].batch[sched[p].i])
          /\ sched' = [sched EXCEPT ![p].pc = "assignTask"]
     ELSE /\ worktrees' = worktrees
          /\ sched' = [sched EXCEPT ![p] = [pc |-> "done"]]
  /\ UNCHANGED <<planStatus, tasks, nextTaskId, deps, worktreeCount, prs, call>>

\* assignTaskToWorktree from `await updateTaskStatus(...)` to its end
SchedAssignTask(p) ==
  /\ sched[p].pc = "assignTask"
  /\ LET scheduled == sched[p].batch[sched[p].i]
         last == sched[p].i = Len(sched[p].batch)
     IN /\ tasks' = AssignTaskRow(tasks, scheduled)
        /\ sched' = [sched EXCEPT ![p] =
                       IF last THEN [pc |-> "done"]
                       ELSE [@ EXCEPT !.pc = "assignWorktree",
                                      !.i = @ + 1,
                                      !.state = AssignState(@, scheduled)]]
  /\ UNCHANGED <<planStatus, nextTaskId, deps, worktrees, worktreeCount, prs, call>>

NextConc ==
  \/ \E p \in Procs : \E n \in 1..worktreeCount : SchedInit(p, n)
  \/ \E p \in Procs : SchedNextBatch(p)
  \/ \E p \in Procs : \E gitOk \in BOOLEAN : SchedAssignWorktree(p, gitOk)
  \/ \E p \in Procs : SchedAssignTask(p)

SpecConc == Init /\ [][NextConc]_vars

\* ------------------------------------------------- plan editing commands
\* `plan ai generate`: the planner answers resp, generateAndSavePlan stores it
GeneratePlan(resp) ==
  LET r == SavePlan(tasks, deps, nextTaskId, resp)
  IN /\ nextTaskId + Len(resp) - 1 <= MaxTasks
     /\ Len(r.deps) <= MaxDeps
     /\ planStatus' = r.planStatus
     /\ tasks' = r.tasks
     /\ nextTaskId' = r.nextTaskId
     /\ deps' = r.deps
     /\ UNCHANGED <<worktrees, worktreeCount, sched, prs, call>>

RECURSIVE AddTaskLevel(_, _, _)
\* level = Math.max(level, depTask.level + 1) over the dependsOn ids found
AddTaskLevel(ts, dependsOn, level) ==
  IF dependsOn = <<>> THEN level
  ELSE AddTaskLevel(ts, Tail(dependsOn),
                    IF Head(dependsOn) \in TaskIds /\ ts[Head(dependsOn)].exists
                    THEN Max(level, ts[Head(dependsOn)].level + 1)
                    ELSE level)

RECURSIVE AddTaskDeps(_, _, _, _)
\* one addTaskDependency per dependsOn id found; the insert that violates
\* UNIQUE throws and ends the command with the rows inserted so far
AddTaskDeps(ds, ts, t, dependsOn) ==
  IF dependsOn = <<>> THEN ds
  ELSE IF ~(Head(dependsOn) \in TaskIds /\ ts[Head(dependsOn)].exists)
       THEN AddTaskDeps(ds, ts, t, Tail(dependsOn))
       ELSE IF DepInsertOk(ds, t, Head(dependsOn))
            THEN AddTaskDeps(addTaskDependency(ds, t, Head(dependsOn)), ts, t,
                             Tail(dependsOn))
            ELSE ds

\* `task add [--depends-on ids] [--level level]`; hasLevel: --level was given
TaskAdd(dependsOn, hasLevel, level) ==
  LET t == nextTaskId
      newLevel == IF hasLevel THEN level ELSE AddTaskLevel(tasks, dependsOn, 0)
      newDeps == AddTaskDeps(deps, tasks, t, dependsOn)
  IN /\ nextTaskId <= MaxTasks
     /\ hasLevel \/ level = 0
     /\ Len(newDeps) <= MaxDeps
     /\ tasks' = [tasks EXCEPT ![t] = NewTaskRow(newLevel, "pending")]
     /\ nextTaskId' = nextTaskId + 1
     /\ deps' = newDeps
     /\ UNCHANGED <<planStatus, worktrees, worktreeCount, sched, prs, call>>

\* `task edit <task-id> --level level`
TaskEdit(t, level) ==
  /\ tasks[t].exists
  /\ tasks' = [tasks EXCEPT ![t].level = level]
  /\ UNCHANGED <<planStatus, nextTaskId, deps, worktrees, worktreeCount, sched, prs, call>>

\* `task delete <task-id>`; cascade: the connection enforces foreign keys
TaskDelete(t, cascade) ==
  /\ tasks[t].exists
  /\ tasks' = deleteTask(tasks, t)
  /\ deps' = IF cascade THEN CascadeDeps(deps, t) ELSE deps
  /\ prs' = IF cascade THEN CascadePrs(prs, t) ELSE prs
  /\ UNCHANGED <<planStatus, nextTaskId, worktrees, worktreeCount, sched, call>>

\* `task depends <task-id> --on <depends-on-id>`
TaskDepends(t, d) ==
  /\ tasks[t].exists
  /\ tasks[d].exists
  /\ DepInsertOk(deps, t, d)
  /\ Len(deps) < MaxDeps
  /\ deps' = addTaskDependency(deps, t, d)
  /\ UNCHANGED <<planStatus, tasks, nextTaskId, worktrees, worktreeCount, sched, prs, call>>

\* `task undepends <task-id> --on <depends-on-id>`
TaskUndepends(t, d) ==
  /\ tasks[t].exists
  /\ tasks[d].exists
  /\ deps' = removeTaskDependency(deps, t, d)
  /\ UNCHANGED <<planStatus, tasks, nextTaskId, worktrees, worktreeCount, sched, prs, call>>

\* a project with a draft plan and no task
InitDeps ==
  /\ planStatus = "draft"
  /\ tasks = EmptyTasks
  /\ nextTaskId = 1
  /\ deps = <<>>
  /\ worktrees = InitWorktrees
  /\ worktreeCount = MaxWorktrees
  /\ sched = IdleSched
  /\ prs = <<>>
  /\ call = NoCall

AddDependsOnLists == UNION {[1..n -> 0..MaxTasks] : n \in 0..MaxDependsOn}

NextDeps ==
  \/ \E k \in 1..MaxPlanTasks : \E resp \in PlanResponses(k) : GeneratePlan(resp)
  \/ \E dependsOn \in AddDependsOnLists, hasLevel \in BOOLEAN, level \in 0..MaxLevelOpt :
       TaskAdd(dependsOn, hasLevel, level)
  \/ \E t \in TaskIds, level \in 0..MaxLevelOpt : TaskEdit(t, level)
  \/ \E t \in TaskIds, cascade \in BOOLEAN : TaskDelete(t, cascade)
  \/ \E t \in TaskIds, d \in TaskIds : TaskDepends(t, d)
  \/ \E t \in TaskIds, d \in TaskIds : TaskUndepends(t, d)
  \/ \E t \in TaskIds : TaskComplete(t)

SpecDeps == InitDeps /\ [][NextDeps]_vars

\* ----------------------------------------------------------- pr commands
\* what `gh pr view` reports: PrInfo.state, isDraft, reviewDecision
GhPrs ==
  [state : {"OPEN", "CLOSED", "MERGED", "UNKNOWN"},
   isDraft : BOOLEAN,
   reviewDecision : {"", "APPROVED", "CHANGES_REQUESTED"}]

\* a translation that looks at isDraft before the state
convertPrStatus_draftFirst(ghPr) ==
  IF ghPr.isDraft THEN "draft"
  ELSE IF ghPr.state = "MERGED" THEN "merged"
  ELSE IF ghPr.state = "CLOSED" THEN "closed"
  ELSE IF ghPr.reviewDecision = "APPROVED" THEN "approved"
  ELSE IF ghPr.reviewDecision = "CHANGES_REQUESTED" THEN "in_review"
  ELSE IF ghPr.state = "OPEN" THEN "open"
  ELSE "draft"

convertPrStatus(ghPr) ==
  IF ghPr.state = "MERGED" THEN "merged"
  ELSE IF ghPr.state = "CLOSED" THEN "closed"
  ELSE IF ghPr.isDraft THEN "draft"
  ELSE IF ghPr.reviewDecision = "APPROVED" THEN "approved"
  ELSE IF ghPr.reviewDecision = "CHANGES_REQUESTED" THEN "in_review"
  ELSE IF ghPr.state = "OPEN" THEN "open"
  ELSE "draft"

\* `pr create <task-id> [--draft]`; the push and `gh pr create` succeed
PrCreate(t, draft) ==
  /\ tasks[t].exists
  /\ getPrByTaskId(prs, t) = NoPr
  /\ tasks[t].branchName # NoBranch
  /\ prs' = createPrRecord(prs, t, IF draft THEN "draft" ELSE "open")
  /\ tasks' = updateTaskStatus(tasks, t, "pr_created")
  /\ UNCHANGED <<planStatus, nextTaskId, deps, worktrees, worktreeCount, sched, call>>

\* the body of the sync of one PR: updatePrStatus, then the task when merged
SyncPrRows(ps, t, ghPr) == updatePrStatus(ps, getPrByTaskId(ps, t), convertPrStatus(ghPr))
SyncTaskRows(ts, t, ghPr) ==
  IF convertPrStatus(ghPr) = "merged" THEN updateTaskStatus(ts, t, "completed") ELSE ts

\* `pr sync <task-id>`; `gh pr view` answers ghPr
PrSync(t, ghPr) ==
  /\ tasks[t].exists
  /\ getPrByTaskId(prs, t) # NoPr
  /\ prs' = SyncPrRows(prs, t, ghPr)
  /\ tasks' = SyncTaskRows(tasks, t, ghPr)
  /\ UNCHANGED <<planStatus, nextTaskId, deps, worktrees, worktreeCount, sched, call>>

RECURSIVE SyncAllPrs(_, _, _)
RECURSIVE SyncAllTasks(_, _, _, _)
\* the loop of `pr sync` over getTasksByPlan; answers[t] is the answer of
\* `gh pr view` for the PR of t; ok = FALSE: the call throws, the PR is skipped
SyncAllPrs(ps, order, answers) ==
  IF order = <<>> THEN ps
  ELSE LET t == Head(order)
       IN IF getPrByTaskId(ps, t) = NoPr \/ ~answers[t].ok
          THEN SyncAllPrs(ps, Tail(order), answers)
          ELSE SyncAllPrs(SyncPrRows(ps, t, answers[t].pr), Tail(order), answers)

SyncAllTasks(ts, ps, order, answers) ==
  IF order = <<>> THEN ts
  ELSE LET t == Head(order)
       IN IF getPrByTaskId(ps, t) = NoPr \/ ~answers[t].ok
          THEN SyncAllTasks(ts, ps, Tail(order), answers)
          ELSE SyncAllTasks(SyncTaskRows(ts, t, answers[t].pr), ps, Tail(order), answers)

\* one answer per outcome of convertPrStatus, and the failing call
GhAnswers ==
  {[ok |-> TRUE, pr |-> [state |-> "MERGED", isDraft |-> FALSE, reviewDecision |-> "APPROVED"]],
   [ok |-> TRUE, pr |-> [state |-> "CLOSED", isDraft |-> FALSE, reviewDecision |-> ""]],
   [ok |-> TRUE, pr |-> [state |-> "OPEN", isDraft |-> TRUE, reviewDecision |-> ""]],
   [ok |-> TRUE, pr |-> [state |-> "OPEN", isDraft |-> FALSE, reviewDecision |-> "APPROVED"]],
   [ok |-> TRUE, pr |-> [state |-> "OPEN", isDraft |-> FALSE,
                         reviewDecision |-> "CHANGES_REQUESTED"]],
   [ok |-> TRUE, pr |-> [state |-> "OPEN", isDraft |-> FALSE, reviewDecision |-> ""]],
   [ok |-> FALSE, pr |-> [state |-> "OPEN", isDraft |-> FALSE, reviewDecision |-> ""]]}

\* `pr sync` without a task id
PrSyncAll(answers) ==
  LET order == getTasksByPlan(tasks)
  IN /\ prs # <<>>
     /\ prs' = SyncAllPrs(prs, order, answers)
     /\ tasks' = SyncAllTasks(tasks, prs, order, answers)
     /\ UNCHANGED <<planStatus, nextTaskId, deps, worktrees, worktreeCount, sched, call>>

\* `pr merge <task-id>`; `gh pr merge` succeeds
PrMerge(t) ==
  /\ tasks[t].exists
  /\ getPrByTaskId(prs, t) # NoPr
  /\ prs' = updatePrStatus(prs, getPrByTaskId(prs, t), "merged")
  /\ tasks' = updateTaskStatus(tasks, t, "completed")
  /\ UNCHANGED <<planStatus, nextTaskId, deps, worktrees, worktreeCount, sched, call>>

\* `pr close <task-id>`; `gh pr close` succeeds
PrClose(t) ==
  /\ tasks[t].exists
  /\ getPrByTaskId(prs, t) # NoPr
  /\ prs' = updatePrStatus(prs, getPrByTaskId(prs, t), "closed")
  /\ UNCHANGED <<planStatus, tasks, nextTaskId, deps, worktrees, worktreeCount, sched, call>>

\* ------------------------------------------- scheduler task operations
\* startTask / completeTask / markPrCreated of the scheduler, called with the
\* SchedulerState that initializeScheduler builds from the store
SchedWorktreeStatus(ws, assignedWorktrees, t, status) ==
  IF t \in DOMAIN assignedWorktrees
  THEN updateWorktreeStatus(ws, assignedWorktrees[t], status)
  ELSE ws

SchedStartTask(t) ==
  /\ tasks[t].exists
  /\ tasks' = updateTaskStatus(tasks, t, "in_progress")
  /\ worktrees' = SchedWorktreeStatus(worktrees, AssignedWorktrees(tasks), t, "in_progress")
  /\ UNCHANGED <<planStatus, nextTaskId, deps, worktreeCount, sched, prs, call>>

SchedCompleteTask(t) ==
  /\ tasks[t].exists
  /\ tasks' = updateTaskStatus(tasks, t, "completed")
  /\ worktrees' = SchedWorktreeStatus(worktrees, AssignedWorktrees(tasks), t, "completed")
  /\ UNCHANGED <<planStatus, nextTaskId, deps, worktreeCount, sched, prs, call>>

SchedMarkPrCreated(t) ==
  /\ tasks[t].exists
  /\ tasks' = updateTaskStatus(tasks, t, "pr_created")
  /\ worktrees' = SchedWorktreeStatus(worktrees, AssignedWorktrees(tasks), t, "pr_pending")
  /\ UNCHANGED <<planStatus, nextTaskId, deps, worktreeCount, sched, prs, call>>

\* the task lifecycle after scheduling: task and pr commands and the
\* scheduler's task operations on a persisted plan
NextPr ==
  \/ \E t \in TaskIds : TaskStart(t)
  \/ \E t \in TaskIds : TaskComplete(t)
  \/ \E t \in TaskIds : \E draft \in BOOLEAN : PrCreate(t, draft)
  \/ \E t \in TaskIds : \E ghPr \in GhPrs : PrSync(t, ghPr)
  \/ \E answers \in [{t \in TaskIds : getPrByTaskId(prs, t) # NoPr} -> GhAnswers] :
       PrSyncAll(answers)
  \/ \E t \in TaskIds : PrMerge(t)
  \/ \E t \in TaskIds : PrClose(t)
  \/ \E t \in TaskIds : SchedCompleteTask(t)
  \/ \E t \in TaskIds : SchedMarkPrCreated(t)

\* a persisted plan of at most MaxPrTasks tasks
InitPr ==
  \E k \in 1..MaxPrTasks :
    \E resp \in {Independent(k), Chain(k), ReverseChain(k)} : InitStore(resp, MaxWorktrees)

\* `wt reset --all`
WtResetAll ==
  /\ worktrees' = [w \in DOMAIN worktrees |-> releaseWorktree(worktrees, w)[w]]
  /\ UNCHANGED <<planStatus, tasks, nextTaskId, deps, worktreeCount, sched, prs, call>>

\* the worktree lifecycle: every command and scheduler operation that
\* writes a worktree row
NextWt ==
  \/ ExecParallel
  \/ \E t \in TaskIds : ExecTask(t)
  \/ \E t \in TaskIds : TaskStart(t)
  \/ \E t \in TaskIds : TaskComplete(t)
  \/ \E w \in WorktreeIds : WtReset(w)
  \/ WtResetAll
  \/ \E t \in TaskIds : SchedStartTask(t)
  \/ \E t \in TaskIds : SchedCompleteTask(t)
  \/ \E t \in TaskIds : SchedMarkPrCreated(t)

SpecWt == InitPr /\ [][NextWt]_vars

SpecPr == InitPr /\ [][NextPr]_vars

\* --------------------------------------------------------- plan commands
\* `plan ai generate --plan-id`, up to the planner call: updatePlanStatus
GenerateBegin ==
  /\ planStatus' = "planning"
  /\ UNCHANGED <<tasks, nextTaskId, deps, worktrees, worktreeCount, sched, prs, call>>

\* ... and from the planner's answer resp on
GenerateEnd(resp) ==
  /\ planStatus = "planning"
  /\ GeneratePlan(resp)

\* `plan ai approve <plan-id>`
PlanApprove ==
  /\ planStatus # "in_progress"
  /\ planStatus' = "ready"
  /\ UNCHANGED <<tasks, nextTaskId, deps, worktrees, worktreeCount, sched, prs, call>>

\* `plan start <plan-id>`
PlanStart ==
  /\ planStatus # "in_progress"
  /\ planStatus' = "in_progress"
  /\ UNCHANGED <<tasks, nextTaskId, deps, worktrees, worktreeCount, sched, prs, call>>

\* updatePlanProgress of the scheduler, with the state initializeScheduler
\* builds from the store
UpdatePlanProgress ==
  LET state == initializeScheduler(tasks, deps)
  IN /\ state.graph.ok
     /\ planStatus' =
          IF isComplete(state) THEN "completed"
          ELSE IF state.inProgressTaskIds # {} \/ state.completedTaskIds # {}
               THEN "in_progress"
               ELSE planStatus
     /\ UNCHANGED <<tasks, nextTaskId, deps, worktrees, worktreeCount, sched, prs, call>>

NextPlan ==
  \/ GenerateBegin
  \/ \E k \in 1..MaxPlanTasks : \E resp \in PlanResponses(k) : GenerateEnd(resp)
  \/ PlanApprove
  \/ PlanStart
  \/ UpdatePlanProgress
  \/ \E t \in TaskIds : TaskStart(t)
  \/ \E t \in TaskIds : TaskComplete(t)

SpecPlan == InitDeps /\ [][NextPlan]_vars

\* ----------------------------------------------------------- properties
DependsOnIds(t) == {d \in TaskIds : <<t, d>> \in SeqToSet(deps)}

ActiveTasks == {t \in TaskIds : tasks[t].exists /\ tasks[t].status \in ActiveTaskStatuses}

\* C1 (ready gating): a step takes a task from pending/ready to assigned or
\* in_progress only if every task it depends on is completed before the step.
C1_ReadyGating ==
  [][\A t \in TaskIds :
       (/\ tasks[t].exists
        /\ tasks[t].status \in {"pending", "ready"}
        /\ tasks'[t].status \in {"assigned", "in_progress"})
       => \A d \in DependsOnIds(t) : tasks[d].status = "completed"]_vars

\* C2 (mutual exclusion): no worktree is the worktree_id of two distinct tasks.
C2_MutualExclusion ==
  \A t1, t2 \in TaskIds :
    (/\ t1 # t2
     /\ tasks[t1].exists /\ tasks[t2].exists
     /\ tasks[t1].worktreeId # NoWorktree)
    => tasks[t1].worktreeId # tasks[t2].worktreeId

\* C3 (assignment symmetry): task t records worktree w exactly when worktree w
\* records task t, and then both statuses are in the active sets.
C3_AssignmentSymmetry ==
  \A t \in TaskIds, w \in WorktreeIds :
    /\ (tasks[t].exists /\ tasks[t].worktreeId = w) <=> (worktrees[w].taskId = t)
    /\ (worktrees[w].taskId = t)
         => /\ tasks[t].status \in ActiveTaskStatuses
            /\ worktrees[w].status \in ActiveWorktreeStatuses

\* C5 (concurrency cap): at most max_concurrent (the project's worktree_count,
\* which every scheduler invocation uses or lowers) tasks of the plan are active.
C5_ConcurrencyCap == Cardinality(ActiveTasks) <= worktreeCount

\* C10 (branch invariant): an active task has a branch_name, a pending, ready
\* or completed task has none.
C10_BranchInvariant ==
  \A t \in TaskIds :
    tasks[t].exists =>
      /\ tasks[t].status \in ActiveTaskStatuses => tasks[t].branchName # NoBranch
      /\ tasks[t].status \in {"pending", "ready", "completed"}
           => tasks[t].branchName = NoBranch

\* C4 (atomic transition): whoever reads the store while an invocation runs
\* sees a worktree assigned to a task only together with that task assigned,
\* and a task assigned only together with a worktree that records it.
C4_AtomicAssign ==
  /\ \A w \in WorktreeIds :
       (worktrees[w].status = "assigned" /\ worktrees[w].taskId # NoTask)
         => tasks[worktrees[w].taskId].status \in {"assigned", "in_progress"}
  /\ \A t \in TaskIds :
       (tasks[t].exists /\ tasks[t].status = "assigned")
         => \E w \in WorktreeIds :
              worktrees[w].status = "assigned" /\ worktrees[w].taskId = t

\* C6 (interleaved invocations): when both invocations have ended, no
\* worktree was handed to two different tasks, no task is recorded by two
\* worktrees, and at most max_concurrent tasks are active.
C6_InterleavedSchedulers ==
  (\A p \in Procs : sched[p].pc = "done") =>
    /\ \A t1, t2 \in TaskIds :
         (/\ t1 # t2
          /\ tasks[t1].status = "assigned" /\ tasks[t2].status = "assigned")
         => \E w1, w2 \in WorktreeIds :
              w1 # w2 /\ worktrees[w1].taskId = t1 /\ worktrees[w2].taskId = t2
    /\ \A w1, w2 \in WorktreeIds :
         (w1 # w2 /\ worktrees[w1].taskId # NoTask)
           => worktrees[w1].taskId # worktrees[w2].taskId
    /\ Cardinality(ActiveTasks) <= worktreeCount

\* C7 (acyclicity): the persisted edges of the plan form an acyclic graph,
\* buildDependencyGraph on the plan's tasks and edges succeeds.
C7_Acyclicity == StoreGraph(tasks, deps).ok

\* C8 (stored levels): a persisted task without dependencies has level 0, any
\* other has level 1 + the maximum level of its dependencies.
C8_StoredLevels ==
  \A t \in TaskIds :
    tasks[t].exists =>
      LET D == {d \in DependsOnIds(t) : tasks[d].exists}
      IN IF D = {} THEN tasks[t].level = 0
         ELSE /\ \E d \in D : tasks[t].level = 1 + tasks[d].level
              /\ \A d \in D : tasks[t].level >= 1 + tasks[d].level

\* C9 (ready tasks): every dependency of a task in status ready is completed.
C9_ReadyHasCompletedDeps ==
  \A t \in TaskIds :
    (tasks[t].exists /\ tasks[t].status = "ready")
      => \A d \in DependsOnIds(t) : tasks[d].exists => tasks[d].status = "completed"

\* the PR rows of task t
PrsOf(ps, t) == {i \in 1..Len(ps) : ps[i].taskId = t}

\* C11 (completion needs a merged PR): a task becomes completed only in a
\* step after which it has a PR record in status merged; nothing in the code
\* offers a force flag.
C11_CompletedNeedsMergedPr ==
  [][\A t \in TaskIds :
       (tasks[t].exists /\ tasks[t].status # "completed" /\ tasks'[t].status = "completed")
         => \E i \in PrsOf(prs', t) : prs'[i].status = "merged"]_vars

\* C12 (pr_created needs a PR): every task in status pr_created has a PR
\* record whose task_id is that task.
C12_PrCreatedHasPr ==
  \A t \in TaskIds :
    (tasks[t].exists /\ tasks[t].status = "pr_created") => PrsOf(prs, t) # {}

\* C13 (task transitions): every change of a task's status follows an edge
\* of the lifecycle pending -> ready -> assigned -> in_progress -> pr_created
\* -> in_review -> completed, or pending/ready -> blocked; in particular a
\* completed task keeps its status.
C13_TaskTransitions ==
  [][LET TaskEdges ==
           {<<"pending", "ready">>, <<"ready", "assigned">>,
            <<"assigned", "in_progress">>, <<"in_progress", "pr_created">>,
            <<"pr_created", "in_review">>, <<"in_review", "completed">>,
            <<"pending", "blocked">>, <<"ready", "blocked">>}
     IN \A t \in TaskIds :
          (tasks[t].exists /\ tasks'[t].exists /\ tasks'[t].status # tasks[t].status)
            => <<tasks[t].status, tasks'[t].status>> \in TaskEdges]_vars

\* C14 (plan transitions): every change of the plan's status follows an edge
\* of the plan lifecycle draft -> planning -> ready -> in_progress ->
\* completed, or any non-terminal status -> archived.
C14_PlanTransitions ==
  [][LET PlanEdges ==
           {<<"draft", "planning">>, <<"planning", "ready">>,
            <<"ready", "in_progress">>, <<"in_progress", "completed">>}
           \cup {<<from, "archived">> :
                   from \in {"draft", "planning", "ready", "in_progress"}}
     IN planStatus' # planStatus => <<planStatus, planStatus'>> \in PlanEdges]_vars

\* C15 (available worktrees are clear): a worktree in status available has
\* no task_id and no branch, whichever operation made it available.
C15_AvailableIsClear ==
  \A w \in WorktreeIds :
    worktrees[w].status = "available"
      => worktrees[w].taskId = NoTask /\ worktrees[w].branch = NoBranch

\* a worktree that `task start` handed to a task is available again
C15_Released ==
  \E t \in TaskIds, w \in WorktreeIds :
    /\ tasks[t].exists
    /\ tasks[t].worktreeId = w
    /\ worktrees[w].status = "available"

\* C16 (merge completion): a `pr sync` of task t that sees MERGED leaves the
\* PR of t merged and t completed, and every pending task that depends on t
\* and has all its dependencies completed after the step is ready.
C16_MergeCompletion ==
  [][\A t \in TaskIds : \A ghPr \in GhPrs :
       (ghPr.state = "MERGED" /\ PrSync(t, ghPr))
         => /\ prs'[getPrByTaskId(prs, t)].status = "merged"
            /\ tasks'[t].status = "completed"
            /\ \A u \in TaskIds :
                 (/\ tasks[u].exists
                  /\ tasks[u].status = "pending"
                  /\ t \in DependsOnIds(u)
                  /\ \A d \in DependsOnIds(u) :
                       tasks'[d].exists /\ tasks'[d].status = "completed")
                   => tasks'[u].status = "ready"]_vars

\* C17 (one PR per task): every task has at most one PR row, and a step adds
\* a PR row for a task only if the task had none and has a branch; the
\* refused `pr create` is no step at all.
C17_OnePrPerTask ==
  /\ [](\A t \in TaskIds : Cardinality(PrsOf(prs, t)) <= 1)
  /\ [][\A t \in TaskIds :
          Cardinality(PrsOf(prs', t)) > Cardinality(PrsOf(prs, t))
            => /\ PrsOf(prs, t) = {}
               /\ tasks[t].branchName # NoBranch
               /\ Len(prs') = Len(prs) + 1]_vars

\* a task with a branch whose only PR is closed, and a task without a branch:
\* `pr create` is refused on both
C17_ClosedPrAndNoBranch ==
  /\ \E t \in TaskIds :
       /\ tasks[t].exists
       /\ tasks[t].branchName # NoBranch
       /\ \E i \in PrsOf(prs, t) : prs[i].status = "closed"
  /\ \E u \in TaskIds : tasks[u].exists /\ tasks[u].branchName = NoBranch

\* C18 (edge validation): `task depends t --on d` changes the store only if
\* d is another task than t and the edge (t, d) is not stored yet.
C18_EdgeValidation ==
  [][\A t \in TaskIds : \A d \in TaskIds :
       (TaskDepends(t, d) /\ deps' # deps)
         => /\ t # d
            /\ <<t, d>> \notin SeqToSet(deps)]_vars

\* C19 (failed generation): a plan generation that fails, in the level
\* calculation or in an insert, leaves the plan's status, the task rows and
\* the dependency rows as they were before the call.
C19_FailedGenerationRestores ==
  [][\A k \in 1..MaxPlanTasks : \A resp \in PlanResponses(k) :
       (GeneratePlan(resp) /\ ~SavePlan(tasks, deps, nextTaskId, resp).ok)
         => /\ planStatus' = planStatus
            /\ tasks' = tasks
            /\ deps' = deps]_vars

\* the store ids given to the planner tasks of resp, in the planner's order
PlanTaskIds(next, resp) == [i \in 1..Len(resp) |-> next + i - 1]

\* the (task, depends_on) pairs of resp under the planner-id to store-id mapping
PlanPairs(next, resp) ==
  UNION {{<<next + i - 1, next + resp[i][j] - 1>> : j \in 1..Len(resp[i])} :
           i \in 1..Len(resp)}

\* C20 (persistence round trip): after a successful plan generation the store
\* holds one task per planner task and exactly the edges of the planner's
\* (task, depends_on) pairs; each new task's level is its level in the graph
\* of the stored edges, it is ready if its level is 0 and pending otherwise,
\* and the plan is ready.
C20_PersistenceRoundTrip ==
  [][\A k \in 1..MaxPlanTasks : \A resp \in PlanResponses(k) :
       (GeneratePlan(resp) /\ SavePlan(tasks, deps, nextTaskId, resp).ok)
         => LET ids == PlanTaskIds(nextTaskId, resp)
                graph == buildDependencyGraph(tasks', ids, deps')
            IN /\ nextTaskId' = nextTaskId + Len(resp)
               /\ \A i \in 1..Len(resp) : ~tasks[ids[i]].exists /\ tasks'[ids[i]].exists
               /\ SeqToSet(deps') \ SeqToSet(deps) = PlanPairs(nextTaskId, resp)
               /\ Len(deps') = Len(deps) + Cardinality(PlanPairs(nextTaskId, resp))
               /\ graph.ok
               /\ \A i \in 1..Len(resp) :
                    /\ tasks'[ids[i]].level = graph.level[ids[i]]
                    /\ tasks'[ids[i]].status =
                         (IF tasks'[ids[i]].level = 0 THEN "ready" ELSE "pending")
               /\ planStatus' = "ready"]_vars

\* ---------------------------------------------------------------- lookups
\* An id is a string of IdLen characters; a lookup is given the rows in the
\* order the query returns them and a non-empty prefix.
IdLen == 3
MaxRows == 2
Ids == [1..IdLen -> {"0", "1"}]
Prefixes == UNION {[1..n -> {"0", "1"}] : n \in 1..IdLen}

\* sequences of at most MaxRows distinct ids
IdRows ==
  {rows \in UNION {[1..n -> Ids] : n \in 0..MaxRows} :
     \A i \in 1..Len(rows) : \A j \in 1..Len(rows) : i # j => rows[i] # rows[j]}

NoId == <<>>

startsWith(id, prefix) ==
  Len(prefix) <= Len(id) /\ SubSeq(id, 1, Len(prefix)) = prefix

\* select ... where id = ? limit 1
getTaskById(rows, id) == IF id \in SeqToSet(rows) THEN id ELSE NoId

\* select ... where id like 'prefix%' limit 2; the row when there is one only
getTaskByIdPrefix(rows, prefix) ==
  LET result == SelectSeq(rows, LAMBDA id : startsWith(id, prefix))
  IN IF Len(result) = 1 THEN result[1] ELSE NoId

\* rows.find(r => r.id.startsWith(prefix)) ?? null
FindStartsWith(rows, prefix) ==
  LET result == SelectSeq(rows, LAMBDA id : startsWith(id, prefix))
  IN IF result = <<>> THEN NoId ELSE result[1]

\* findTask of the query server: by id, by prefix, then the first task of
\* the plans' tasks that starts with the prefix
findTask(rows, taskId) ==
  IF getTaskById(rows, taskId) # NoId THEN getTaskById(rows, taskId)
  ELSE IF getTaskByIdPrefix(rows, taskId) # NoId THEN getTaskByIdPrefix(rows, taskId)
  ELSE FindStartsWith(rows, taskId)

\* findPlan: by id, then the first plan that starts with the prefix
findPlan(rows, planId) ==
  IF getTaskById(rows, planId) # NoId THEN getTaskById(rows, planId)
  ELSE FindStartsWith(rows, planId)

\* what the caller makes of the result: the row, or its not-found message
LookupResult(id) ==
  IF id = NoId THEN [kind |-> "NotFound", id |-> NoId] ELSE [kind |-> "Found", id |-> id]

\* the store of a fresh project, for the specifications of read-only lookups
InitLookup ==
  /\ planStatus = "draft"
  /\ tasks = EmptyTasks
  /\ nextTaskId = 1
  /\ deps = <<>>
  /\ worktrees = InitWorktrees
  /\ worktreeCount = MaxWorktrees
  /\ sched = IdleSched
  /\ prs = <<>>

StoreUnchanged ==
  UNCHANGED <<planStatus, tasks, nextTaskId, deps, worktrees, worktreeCount, sched, prs>>

InitFind ==
  /\ InitLookup
  /\ \E rows \in IdRows : \E prefix \in Prefixes :
       call = [op |-> "args", rows |-> rows, prefix |-> prefix,
               result |-> LookupResult(NoId)]

FindTask ==
  /\ call' = [call EXCEPT !.op = "findTask",
                          !.result = LookupResult(findTask(call.rows, call.prefix))]
  /\ StoreUnchanged

FindPlan ==
  /\ call' = [call EXCEPT !.op = "findPlan",
                          !.result = LookupResult(findPlan(call.rows, call.prefix))]
  /\ StoreUnchanged

SpecFind == InitFind /\ [][FindTask \/ FindPlan]_vars

\* C21 (prefix lookup): a lookup of a plan or a task by prefix answers the
\* row when exactly one row has the prefix, Ambiguous when two or more have
\* it, and NotFound when none has.
C21_PrefixLookup ==
  call.op \in {"findTask", "findPlan"} =>
    LET matches == {id \in SeqToSet(call.rows) : startsWith(id, call.prefix)}
    IN IF matches = {} THEN call.result.kind = "NotFound"
       ELSE IF Cardinality(matches) = 1
            THEN call.result.kind = "Found" /\ call.result.id \in matches
            ELSE call.result.kind = "Ambiguous"

\* ------------------------------------------------------- get_current_task
\* Branch names and session ids are numbered 1..MaxNames; an argument can
\* also be one more, a name no row carries, or absent.
MaxNames == 2
NoSession == 0

\* the columns of the tasks table the lookup reads
LookupTaskRows ==
  UNION {[1..n -> [sessionId : {NoSession} \cup 1..MaxNames,
                     branchName : {NoBranch} \cup 1..MaxNames]] :
           n \in 0..MaxRows}

\* select ... where session_id = ? limit 1: the rows the query can return
getTaskBySessionId(rows, sessionId) ==
  {i \in 1..Len(rows) : rows[i].sessionId = sessionId}

\* select ... where branch_name = ? limit 1: the rows the query can return
getTaskByBranchName(rows, branchName) ==
  {i \in 1..Len(rows) : rows[i].branchName = branchName}

\* a lookup by branch first and by session after it
getCurrentTask_branchFirst(rows, branch_name, session_id) ==
  LET byBranch == IF branch_name # NoBranch
                  THEN getTaskByBranchName(rows, branch_name) ELSE {}
      bySession == IF byBranch = {} /\ session_id # NoSession
                   THEN getTaskBySessionId(rows, session_id) ELSE {}
  IN IF byBranch # {} THEN byBranch
     ELSE IF bySession # {} THEN bySession ELSE {NoTask}

\* get_current_task: the tasks (row positions) it can answer, NoTask for the
\* error answer; limit 1 without an order picks any of the matching rows
getCurrentTask(rows, branch_name, session_id) ==
  LET bySession == IF session_id # NoSession
                   THEN getTaskBySessionId(rows, session_id) ELSE {}
      byBranch == IF bySession = {} /\ branch_name # NoBranch
                  THEN getTaskByBranchName(rows, branch_name) ELSE {}
  IN IF bySession # {} THEN bySession
     ELSE IF byBranch # {} THEN byBranch ELSE {NoTask}

InitCurrent ==
  /\ InitLookup
  /\ \E rows \in LookupTaskRows :
     \E branch \in 0..(MaxNames + 1) : \E session \in 0..(MaxNames + 1) :
       call = [op |-> "args", rows |-> rows, branch |-> branch, session |-> session,
               result |-> NoTask]

GetCurrentTask ==
  /\ \E t \in getCurrentTask(call.rows, call.branch, call.session) :
       call' = [call EXCEPT !.op = "get_current_task", !.result = t]
  /\ StoreUnchanged

SpecCurrent == InitCurrent /\ [][GetCurrentTask]_vars

\* C24 (current task): get_current_task answers a task whose session_id is
\* the given session when there is one, whatever the branch argument;
\* otherwise a task whose branch_name is the given branch; otherwise no task.
C24_CurrentTask ==
  call.op = "get_current_task" =>
    LET rows == call.rows
        hasSession == /\ call.session # NoSession
                      /\ \E i \in 1..Len(rows) : rows[i].sessionId = call.session
        hasBranch == /\ call.branch # NoBranch
                     /\ \E i \in 1..Len(rows) : rows[i].branchName = call.branch
    IN IF hasSession
       THEN call.result # NoTask /\ rows[call.result].sessionId = call.session
       ELSE IF hasBranch
            THEN call.result # NoTask /\ rows[call.result].branchName = call.branch
            ELSE call.result = NoTask

\* the session names one task and the branch another: the answer is the
\* task of the session
C24_SessionBeatsBranch ==
  /\ call.op = "get_current_task"
  /\ call.result # NoTask
  /\ call.rows[call.result].sessionId = call.session
  /\ call.rows[call.result].branchName # call.branch
  /\ \E i \in 1..Len(call.rows) :
       i # call.result /\ call.branch # NoBranch /\ call.rows[i].branchName = call.branch

\* `pr sync <task-id>` on the PRs of started tasks, and nothing else
SpecSync == InitPr /\
  [][
      \/ \E t \in TaskIds : TaskStart(t)
      \/ \E t \in TaskIds : \E draft \in BOOLEAN : PrCreate(t, draft)
      \/ \E t \in TaskIds : \E ghPr \in GhPrs : PrSync(t, ghPr)
  ]_vars

\* C25 (status translation): the status `pr sync` stores for the forge's
\* answer is merged for state MERGED; else closed for CLOSED; else draft for
\* isDraft; else approved for APPROVED; else in_review for CHANGES_REQUESTED;
\* else open for OPEN; else draft; always one of the six PR statuses.
C25_StatusTranslation ==
  [][\A t \in TaskIds : \A ghPr \in GhPrs :
       PrSync(t, ghPr) =>
         LET s == prs'[getPrByTaskId(prs, t)].status
             live == ghPr.state \notin {"MERGED", "CLOSED"}
             plain == live /\ ~ghPr.isDraft
             undecided == plain /\ ghPr.reviewDecision \notin {"APPROVED", "CHANGES_REQUESTED"}
         IN /\ ghPr.state = "MERGED" => s = "merged"
            /\ ghPr.state = "CLOSED" => s = "closed"
            /\ (live /\ ghPr.isDraft) => s = "draft"
            /\ (plain /\ ghPr.reviewDecision = "APPROVED") => s = "approved"
            /\ (plain /\ ghPr.reviewDecision = "CHANGES_REQUESTED") => s = "in_review"
            /\ (undecided /\ ghPr.state = "OPEN") => s = "open"
            /\ (undecided /\ ghPr.state # "OPEN") => s = "draft"
            /\ s \in {"draft", "open", "in_review", "approved", "merged", "closed"}]_vars

\* a sync has stored in_review for one PR and approved for another
C25_ReviewStatusesStored ==
  /\ \E i \in 1..Len(prs) : prs[i].status = "in_review"
  /\ \E i \in 1..Len(prs) : prs[i].status = "approved"

\* ------------------------------------------------------------ branch names
\* A title is a string of at most MaxTitleLen characters: a lower-case
\* letter, an upper-case letter, or a character that is neither letter nor
\* digit. shortId keeps ShortLen characters and slugify SlugLen.
ShortLen == 2
SlugLen == 2
MaxTitleLen == 3
Titles == UNION {[1..n -> {"a", "A", " "}] : n \in 1..MaxTitleLen}

shortId(id) == SubSeq(id, 1, ShortLen)

RECURSIVE ReplaceRuns(_)
\* .replace(/[^a-z0-9]+/g, "-") on a lower-case string
ReplaceRuns(text) ==
  IF text = <<>> THEN <<>>
  ELSE LET rest == ReplaceRuns(Tail(text))
       IN IF Head(text) = "a" THEN <<"a">> \o rest
          ELSE IF rest # <<>> /\ Head(rest) = "-" THEN rest
          ELSE <<"-">> \o rest

slugify(text) ==
  LET lower == [i \in 1..Len(text) |-> IF text[i] = "A" THEN "a" ELSE text[i]]
      replaced == ReplaceRuns(lower)
      noHead == IF replaced # <<>> /\ Head(replaced) = "-" THEN Tail(replaced) ELSE replaced
      trimmed == IF noHead # <<>> /\ noHead[Len(noHead)] = "-"
                 THEN SubSeq(noHead, 1, Len(noHead) - 1) ELSE noHead
  IN SubSeq(trimmed, 1, Min(Len(trimmed), SlugLen))

\* feature/<planShort>/<taskShort>-<slug>
generateBranchName(planId, task) ==
  <<"feature", shortId(planId), shortId(task.id), slugify(task.title)>>

\* two tasks of one plan, as the scheduler's batch holds them
InitBranch ==
  /\ InitLookup
  /\ \E id1 \in Ids : \E id2 \in Ids \ {id1} :
     \E title1 \in Titles : \E title2 \in Titles :
       call = [op |-> "args", planId |-> [i \in 1..IdLen |-> "0"],
               tasks |-> <<[id |-> id1, title |-> title1], [id |-> id2, title |-> title2]>>,
               result |-> <<>>]

\* the branch names getNextBatch computes for the tasks of a batch
GenerateBranchNames ==
  /\ call' = [call EXCEPT !.op = "generateBranchName",
                          !.result = [i \in 1..Len(call.tasks) |->
                                        generateBranchName(call.planId, call.tasks[i])]]
  /\ StoreUnchanged

SpecBranch == InitBranch /\ [][GenerateBranchNames]_vars

\* C23 (branch names): two distinct tasks of one plan never get the same
\* branch name from the scheduler, also when their titles give the same
\* slug.
C23_BranchIdentifiesTask ==
  call.op = "generateBranchName" =>
    \A i \in 1..Len(call.tasks) : \A j \in 1..Len(call.tasks) :
      call.tasks[i].id # call.tasks[j].id => call.result[i] # call.result[j]

C26_BatchSizeAndContent ==
  [][\A p \in Procs :
       SchedNextBatch(p) =>
         LET state == sched[p].state
             graph == state.graph
             batch == IF sched'[p].pc = "assignWorktree" THEN sched'[p].batch ELSE <<>>
             ready == {t \in SeqToSet(graph.order) :
                         /\ t \notin state.completedTaskIds
                         /\ t \notin state.inProgressTaskIds
                         /\ graph.task[t].status \in {"pending", "ready"}
                         /\ SeqToSet(graph.dependencies[t]) \subseteq state.completedTaskIds}
             available == {w \in WorktreeIds : worktrees[w].status = "available"}
             limit == sched[p].maxConcurrent - Cardinality(state.inProgressTaskIds)
             size == Max(0, Min(limit, Min(Cardinality(available), Cardinality(ready))))
         IN /\ Len(batch) = size
            /\ \A i \in 1..Len(batch) : \A j \in 1..Len(batch) :
                 i # j => /\ batch[i].task # batch[j].task
                          /\ batch[i].worktree # batch[j].worktree
            /\ \A i \in 1..Len(batch) :
                 batch[i].task \in ready /\ batch[i].worktree \in available]_vars

\* the concurrency limit, not the worktrees or the ready tasks, has cut the
\* batch to one pairing
C26_LimitCutsBatch ==
  \E p \in Procs :
    /\ sched[p].pc = "assignWorktree"
    /\ sched[p].i = 1
    /\ Len(sched[p].batch) = 1
    /\ sched[p].maxConcurrent - Cardinality(sched[p].state.inProgressTaskIds) = 1
    /\ Cardinality({w \in WorktreeIds : worktrees[w].status = "available"}) = 2
    /\ Len(SelectSeq(getReadyTasks(sched[p].state.graph, sched[p].state.completedTaskIds),
                     LAMBDA t : t \notin sched[p].state.inProgressTaskIds)) >= 2

\* one `exec parallel` on a plan whose levels are edited by hand
SpecEdit == InitPr /\
  [][
      \/ \E t \in TaskIds : \E level \in 0..MaxLevelOpt : TaskEdit(t, level)
      \/ \E n \in 1..worktreeCount : SchedInit(1, n)
      \/ SchedNextBatch(1)
      \/ \E gitOk \in BOOLEAN : SchedAssignWorktree(1, gitOk)
      \/ SchedAssignTask(1)
  ]_vars

\* C27 (batch order): the i-th pairing of getNextBatch joins the i-th ready
\* task in the order (level in the dependency graph ascending, id ascending)
\* with the i-th available worktree in name order.
C27_BatchOrder ==
  [][\A p \in Procs :
       (SchedNextBatch(p) /\ sched'[p].pc = "assignWorktree") =>
         LET state == sched[p].state
             graph == state.graph
             batch == sched'[p].batch
             ready == SeqToSet(SelectSeq(getReadyTasks(graph, state.completedTaskIds),
                                         LAMBDA t : t \notin state.inProgressTaskIds))
             available == {w \in WorktreeIds : worktrees[w].status = "available"}
             before(t) == {u \in ready :
                             \/ graph.level[u] < graph.level[t]
                             \/ graph.level[u] = graph.level[t] /\ u < t}
         IN \A i \in 1..Len(batch) :
              /\ batch[i].task \in ready
              /\ Cardinality(before(batch[i].task)) = i - 1
              /\ batch[i].worktree \in available
              /\ Cardinality({w \in available : w < batch[i].worktree}) = i - 1]_vars

\* C28 (release on completion): when the scheduler's completeTask has run
\* for a task that held a worktree, the task is completed and the worktree
\* is available with no task and no branch.
C28_CompleteReleasesWorktree ==
  [][\A t \in TaskIds :
       (SchedCompleteTask(t) /\ t \in DOMAIN AssignedWorktrees(tasks))
         => LET w == AssignedWorktrees(tasks)[t]
            IN /\ tasks'[t].status = "completed"
               /\ worktrees'[w].status = "available"
               /\ worktrees'[w].taskId = NoTask
               /\ worktrees'[w].branch = NoBranch]_vars

\* C29 (all or none): when branch creation and the fallback checkout both
\* fail for a pairing of the batch, no worktree and no task of the batch is
\* left assigned: the pairings before the failing one are not persisted.
C29_BatchAllOrNone ==
  [][\A p \in Procs :
       SchedAssignWorktree(p, FALSE) =>
         \A j \in 1..Len(sched[p].batch) :
           /\ worktrees'[sched[p].batch[j].worktree].status = "available"
           /\ tasks'[sched[p].batch[j].task].status # "assigned"]_vars

\* C30 (task and worktree move together): on a SchedulerState that
\* initializeScheduler has built from the store, startTask leaves the task
\* and the worktree assigned to it in_progress, and markPrCreated leaves the
\* task pr_created and that worktree pr_pending.
C30_WorktreeFollowsTask ==
  [][\A t \in TaskIds : \A w \in WorktreeIds :
       (worktrees[w].taskId = t /\ worktrees[w].status \in ActiveWorktreeStatuses)
         => /\ SchedStartTask(t)
                 => tasks'[t].status = "in_progress" /\ worktrees'[w].status = "in_progress"
            /\ SchedMarkPrCreated(t)
                 => tasks'[t].status = "pr_created" /\ worktrees'[w].status = "pr_pending"]_vars

\* ---------------------------------------------------------- graph queries
\* The graph functions on the tasks and rows of a plan of at most MaxNodes
\* tasks: each task depends on at most MaxDependsOn distinct tasks, the tasks
\* come in id order or in the opposite order, the rows grouped by task.
MaxNodes == 4

InitGraph ==
  /\ InitLookup
  /\ \E n \in 0..MaxNodes :
       \E lists \in [1..n -> {l \in UNION {[1..m -> 1..n] : m \in 0..MaxDependsOn} :
                               \A i \in 1..Len(l) : \A j \in 1..Len(l) :
                                 i # j => l[i] # l[j]}] :
         \E order \in {[i \in 1..n |-> i], [i \in 1..n |-> n + 1 - i]} :
           call = [op |-> "args",
                   tasks |-> [t \in 1..n |-> NewTaskRow(0, "pending")],
                   order |-> order,
                   deps |-> ConcatDeps(InsertPlanDeps([deps |-> <<>>, ok |-> TRUE],
                                                      1, lists, 1, 1).deps, order),
                   graph |-> [ok |-> FALSE],
                   path |-> <<>>]

BuildGraph ==
  /\ call.op = "args"
  /\ call' = [call EXCEPT !.op = "buildDependencyGraph",
                          !.graph = buildDependencyGraph(call.tasks, call.order, call.deps)]
  /\ StoreUnchanged

\* getCriticalPath on the graph a successful build returned
GetCriticalPath ==
  /\ call.op = "buildDependencyGraph"
  /\ call.graph.ok
  /\ call' = [call EXCEPT !.op = "getCriticalPath", !.path = getCriticalPath(call.graph)]
  /\ StoreUnchanged

SpecGraph == InitGraph /\ [][BuildGraph \/ GetCriticalPath]_vars

\* C31 (cycle detection): buildDependencyGraph fails exactly when the rows
\* among the given tasks contain a directed cycle, a row of a task on itself
\* included; the error names a task on a cycle; on every other input,
\* diamonds included, it succeeds; the tasks it was given are the tasks of
\* the graph, unchanged.
C31_CycleDetection ==
  call.op = "buildDependencyGraph" =>
    LET ids == SeqToSet(call.order)
        E == {e \in SeqToSet(call.deps) : e[1] \in ids /\ e[2] \in ids}
        Comp(A, B) == {p \in ids \X ids :
                         \E m \in ids : <<p[1], m>> \in A /\ <<m, p[2]>> \in B}
        R2 == E \cup Comp(E, E)
        R4 == R2 \cup Comp(R2, R2)
        R8 == R4 \cup Comp(R4, R4)
        onCycle == {t \in ids : <<t, t>> \in R8}
    IN /\ call.graph.ok <=> onCycle = {}
       /\ ~call.graph.ok => call.graph.cycle \in onCycle
       /\ call.graph.task = [t \in ids |-> call.tasks[t]]

\* a cycle of three tasks is refused, the error naming one of the three
C31_CycleOfThreeRefused ==
  /\ call.op = "buildDependencyGraph"
  /\ ~call.graph.ok
  /\ SeqToSet(call.deps) = {<<1, 2>>, <<2, 3>>, <<3, 1>>}
  /\ call.graph.cycle \in {1, 2, 3}

\* C32 (levels): on success a task with no dependency among the given tasks
\* has level 0 and any other task 1 + the highest level of its dependencies;
\* every task is in the bucket of its level and in no other, and maxLevel is
\* the highest level.
C32_Levels ==
  (call.op = "buildDependencyGraph" /\ call.graph.ok) =>
    LET ids == SeqToSet(call.order)
        graph == call.graph
        dependsOn(t) == {d \in ids : <<t, d>> \in SeqToSet(call.deps)}
    IN /\ \A t \in ids :
            /\ dependsOn(t) = {} => graph.level[t] = 0
            /\ dependsOn(t) # {} =>
                 /\ \A d \in dependsOn(t) : graph.level[t] >= 1 + graph.level[d]
                 /\ \E d \in dependsOn(t) : graph.level[t] = 1 + graph.level[d]
            /\ \A l \in 0..MaxNodes + 1 :
                 t \in SeqToSet(GraphLevels(graph, l)) <=> l = graph.level[t]
       /\ \A t \in ids : graph.level[t] <= graph.maxLevel
       /\ ids # {} => \E t \in ids : graph.level[t] = graph.maxLevel

\* the diamond: 2 and 3 depend on 1, 4 on 2 and 3; levels 0, 1, 1, 2
C32_DiamondLevels ==
  /\ call.op = "buildDependencyGraph"
  /\ call.graph.ok
  /\ SeqToSet(call.deps) = {<<2, 1>>, <<3, 1>>, <<4, 2>>, <<4, 3>>}
  /\ call.graph.level = <<0, 1, 1, 2>>
  /\ call.graph.maxLevel = 2

\* C34 (critical path): the path has maxLevel + 1 tasks, of levels 0, 1, ...,
\* maxLevel in that order; each task has a row on the task before it, and
\* that task is the first of its dependencies, in row order, that has their
\* highest level; the path of a graph of no task is empty.
C34_CriticalPath ==
  call.op = "getCriticalPath" =>
    LET graph == call.graph
        path == call.path
        rowsOf(t) == SelectSeq(call.deps, LAMBDA e : e[1] = t)
    IN IF call.order = <<>> THEN path = <<>>
       ELSE /\ Len(path) = graph.maxLevel + 1
            /\ \A i \in 1..Len(path) : graph.level[path[i]] = i - 1
            /\ \A i \in 2..Len(path) :
                 \E j \in 1..Len(rowsOf(path[i])) :
                   /\ rowsOf(path[i])[j][2] = path[i - 1]
                   /\ \A k \in 1..Len(rowsOf(path[i])) :
                        /\ graph.level[rowsOf(path[i])[k][2]] <= i - 2
                        /\ k < j => graph.level[rowsOf(path[i])[k][2]] < i - 2

\* the diamond with the rows of 4 on 2 and 3 in that order: both have level
\* 1 and the path goes through 2
C34_DiamondPathTakesFirst ==
  /\ call.op = "getCriticalPath"
  /\ call.deps = <<<<2, 1>>, <<3, 1>>, <<4, 2>>, <<4, 3>>>>
  /\ call.path = <<1, 2, 4>>

\* getReadyTasks on the graph of a persisted plan and a completed set: the
\* tasks have any status; the set holds the tasks that were completed when
\* the graph was built and any task completeTask has added since
InitReady ==
  /\ InitLookup
  /\ \E resp \in PlanShapes :
       LET r == SavePlan(EmptyTasks, <<>>, 1, resp)
           ids == 1..Len(resp)
       IN \E status \in [ids -> {"pending", "ready", "in_progress", "completed"}] :
            \E completed \in SUBSET ids :
              /\ \A t \in ids : status[t] = "completed" => t \in completed
              /\ call = [op |-> "args",
                         deps |-> r.deps,
                         graph |-> StoreGraph([t \in TaskIds |->
                                                 IF t \in ids
                                                 THEN [r.tasks[t] EXCEPT !.status = status[t]]
                                                 ELSE r.tasks[t]],
                                              r.deps),
                         completed |-> completed,
                         result |-> <<>>]

GetReadyTasks ==
  /\ call' = [call EXCEPT !.op = "getReadyTasks",
                          !.result = getReadyTasks(call.graph, call.completed)]
  /\ StoreUnchanged

SpecReady == InitReady /\ [][GetReadyTasks]_vars

\* C33 (ready tasks): getReadyTasks returns exactly the tasks whose status is
\* pending or ready and whose every dependency is in the completed set.
C33_ReadyTasks ==
  call.op = "getReadyTasks" =>
    SeqToSet(call.result) =
      {t \in SeqToSet(call.graph.order) :
         /\ call.graph.task[t].status \in {"pending", "ready"}
         /\ \A e \in SeqToSet(call.deps) : e[1] = t => e[2] \in call.completed}

\* C33 as the code has it: getReadyTasks returns exactly the tasks that are
\* not in the completed set, whose status is pending or ready and whose every
\* dependency is in the completed set; the call leaves the graph and the set
\* as they were, and a second call on them returns the same tasks.
C33_ReadyTasksNotCompleted ==
  /\ [](call.op = "getReadyTasks" =>
          SeqToSet(call.result) =
            {t \in SeqToSet(call.graph.order) :
               /\ t \notin call.completed
               /\ call.graph.task[t].status \in {"pending", "ready"}
               /\ \A e \in SeqToSet(call.deps) : e[1] = t => e[2] \in call.completed})
  /\ [][/\ call'.graph = call.graph
        /\ call'.completed = call.completed
        /\ call.op = "getReadyTasks" => call'.result = call.result]_vars

\* a pending task that completeTask has put in the set is left out while
\* another task is returned
C33_CompletedPendingLeftOut ==
  /\ call.op = "getReadyTasks"
  /\ call.result # <<>>
  /\ \E t \in call.completed :
       /\ call.graph.task[t].status = "pending"
       /\ \A e \in SeqToSet(call.deps) : e[1] = t => e[2] \in call.completed
       /\ t \notin SeqToSet(call.result)

\* ------------------------------------------------- one SchedulerState
\* The scheduler's operations on one SchedulerState that stays alive between
\* the calls: sched[p] = [pc |-> "state", state, batch], the batch being the
\* last list getNextBatch returned. Task ids are ids of tasks of the plan.
StateInitialize(p) ==
  LET state == initializeScheduler(tasks, deps)
  IN /\ sched[p].pc = "idle"
     /\ state.graph.ok
     /\ sched' = [sched EXCEPT ![p] = [pc |-> "state", state |-> state, batch |-> <<>>]]
     /\ UNCHANGED <<planStatus, tasks, nextTaskId, deps, worktrees, worktreeCount, prs, call>>

StateNextBatch(p, n) ==
  /\ sched[p].pc = "state"
  /\ LET batch == getNextBatch(n, sched[p].state, worktrees)
     IN sched' = [sched EXCEPT ![p].batch = batch,
                               ![p].state = NextBatchState(@, batch)]
  /\ UNCHANGED <<planStatus, tasks, nextTaskId, deps, worktrees, worktreeCount, prs, call>>

\* assignTaskToWorktree on a pairing of the batch, the git calls succeeding
\* (when they throw, nothing is written)
StateAssign(p, i) ==
  /\ sched[p].pc = "state"
  /\ i \in 1..Len(sched[p].batch)
  /\ worktrees' = AssignWorktreeRow(worktrees, sched[p].batch[i])
  /\ tasks' = AssignTaskRow(tasks, sched[p].batch[i])
  /\ sched' = [sched EXCEPT ![p].state = AssignState(@, sched[p].batch[i])]
  /\ UNCHANGED <<planStatus, nextTaskId, deps, worktreeCount, prs, call>>

StateStartTask(p, t) ==
  /\ sched[p].pc = "state"
  /\ tasks[t].exists
  /\ tasks' = updateTaskStatus(tasks, t, "in_progress")
  /\ worktrees' = SchedWorktreeStatus(worktrees, sched[p].state.assignedWorktrees, t,
                                      "in_progress")
  /\ UNCHANGED <<planStatus, nextTaskId, deps, worktreeCount, sched, prs, call>>

StateCompleteTask(p, t) ==
  /\ sched[p].pc = "state"
  /\ tasks[t].exists
  /\ tasks' = updateTaskStatus(tasks, t, "completed")
  /\ worktrees' = SchedWorktreeStatus(worktrees, sched[p].state.assignedWorktrees, t,
                                      "completed")
  /\ sched' = [sched EXCEPT
                 ![p].state.completedTaskIds = @ \cup {t},
                 ![p].state.inProgressTaskIds = @ \ {t},
                 ![p].state.assignedWorktrees = [x \in DOMAIN @ \ {t} |-> @[x]]]
  /\ UNCHANGED <<planStatus, nextTaskId, deps, worktreeCount, prs, call>>

StateMarkPrCreated(p, t) ==
  /\ sched[p].pc = "state"
  /\ tasks[t].exists
  /\ tasks' = updateTaskStatus(tasks, t, "pr_created")
  /\ worktrees' = SchedWorktreeStatus(worktrees, sched[p].state.assignedWorktrees, t,
                                      "pr_pending")
  /\ UNCHANGED <<planStatus, nextTaskId, deps, worktreeCount, sched, prs, call>>

StateUpdatePlanProgress(p) ==
  /\ sched[p].pc = "state"
  /\ planStatus' =
       IF isComplete(sched[p].state) THEN "completed"
       ELSE IF sched[p].state.inProgressTaskIds # {} \/ sched[p].state.completedTaskIds # {}
            THEN "in_progress"
            ELSE planStatus
  /\ UNCHANGED <<tasks, nextTaskId, deps, worktrees, worktreeCount, sched, prs, call>>

\* Math.round(completed / total * 100): halves round up
getProgress(state) ==
  LET total == Len(state.graph.order)
      completed == Cardinality(state.completedTaskIds)
      inProgress == Cardinality(state.inProgressTaskIds)
  IN [total |-> total, completed |-> completed, inProgress |-> inProgress,
      pending |-> total - completed - inProgress,
      percentComplete |-> IF total > 0 THEN (200 * completed + total) \div (2 * total)
                          ELSE 0]

StateGetProgress(p) ==
  /\ sched[p].pc = "state"
  /\ call' = [op |-> "getProgress", result |-> getProgress(sched[p].state)]
  /\ UNCHANGED <<planStatus, tasks, nextTaskId, deps, worktrees, worktreeCount, sched, prs>>

\* a persisted plan of at most MaxPrTasks tasks, or of none
SpecState ==
  (InitPr \/ InitStore(<<>>, MaxWorktrees)) /\
  [][
      \/ StateInitialize(1)
      \/ \E n \in 1..worktreeCount : StateNextBatch(1, n)
      \/ \E i \in 1..MaxWorktrees : StateAssign(1, i)
      \/ \E t \in TaskIds : StateStartTask(1, t)
      \/ \E t \in TaskIds : StateCompleteTask(1, t)
      \/ \E t \in TaskIds : StateMarkPrCreated(1, t)
      \/ StateUpdatePlanProgress(1)
      \/ StateGetProgress(1)
  ]_vars

C40_SchedulerStateSets ==
  sched[1].pc = "state" =>
    LET state == sched[1].state
        nodes == SeqToSet(state.graph.order)
    IN /\ state.completedTaskIds \cap state.inProgressTaskIds = {}
       /\ state.completedTaskIds \subseteq nodes
       /\ state.inProgressTaskIds \subseteq nodes
       /\ DOMAIN state.assignedWorktrees \subseteq state.inProgressTaskIds

\* C36 (planner response hygiene): a response in which a task lists a
\* dependency twice or lists itself, and which is otherwise acyclic with every
\* entry naming a task of the response, is persisted: the plan is ready and
\* the new rows are the (task, dependency) pairs of distinct tasks, once
\* each; a response with an entry that names no task of the response is
\* refused and nothing of it is stored.
C36_ResponseHygiene ==
  [][\A k \in 1..MaxPlanTasks : \A resp \in PlanResponses(k) :
       GeneratePlan(resp) =>
         LET r == SavePlan(tasks, deps, nextTaskId, resp)
             known == \A i \in 1..Len(resp) : \A j \in 1..Len(resp[i]) :
                        resp[i][j] \in 1..Len(resp)
             noSelf == [i \in 1..Len(resp) |-> SelectSeq(resp[i], LAMBDA d : d # i)]
         IN /\ (known /\ calculateTaskLevels(noSelf).err = NoTask) =>
                 /\ r.ok
                 /\ planStatus' = "ready"
                 /\ Len(deps') = Len(deps) + Cardinality(PlanPairs(nextTaskId, noSelf))
                 /\ SeqToSet(deps') \ SeqToSet(deps) = PlanPairs(nextTaskId, noSelf)
            /\ ~known => ~r.ok /\ tasks' = tasks /\ deps' = deps]_vars

\* C39 (two level calculations): for every planner response that is
\* persisted, the level calculateTaskLevels gives a task, which is the level
\* stored on it, is the level buildDependencyGraph computes for it from the
\* persisted tasks and rows of the plan, also when a dependsOn entry names no
\* task of the response.
C39_LevelsAgree ==
  [][\A k \in 1..MaxPlanTasks : \A resp \in PlanResponses(k) :
       (GeneratePlan(resp) /\ SavePlan(tasks, deps, nextTaskId, resp).ok)
         => LET levels == calculateTaskLevels(resp)
                graph == StoreGraph(tasks', deps')
            IN \A i \in 1..Len(resp) :
                 /\ i \in levels.has
                 /\ tasks'[nextTaskId + i - 1].level = levels.level[i]
                 /\ graph.ok => graph.level[nextTaskId + i - 1] = levels.level[i]]_vars

\* C38 (exec task): `exec task t` assigns t whenever t is pending or ready
\* with every dependency completed, a worktree is available and fewer tasks
\* than the concurrency limit are in progress, whatever other tasks are
\* ready: t is in the batch execTask looks it up in.
C38_ExecTaskAssigns ==
  \A t \in TaskIds :
    (/\ tasks[t].exists
     /\ tasks[t].status \in {"pending", "ready"}
     /\ tasks[t].worktreeId = NoWorktree
     /\ StoreGraph(tasks, deps).ok
     /\ \A d \in DependsOnIds(t) : tasks[d].status = "completed"
     /\ \E w \in WorktreeIds : worktrees[w].status = "available"
     /\ Cardinality(ActiveTasks) < worktreeCount)
      => LET batch == getNextBatch(worktreeCount, initializeScheduler(tasks, deps),
                                   worktrees)
         IN \E i \in 1..Len(batch) : batch[i].task = t

\* ------------------------------------------------------------- progress
\* The scheduler cycle of `exec parallel` run again and again on a persisted
\* acyclic plan, every task that is assigned or further being completed in
\* the end, by completeTask or by `task complete`, and the plan progress
\* being updated; each of them happens if it stays possible.
SpecLive ==
  /\ InitCap
  /\ [][
         \/ ExecParallel
         \/ \E t \in TaskIds : t \in ActiveTasks /\ SchedCompleteTask(t)
         \/ \E t \in TaskIds : t \in ActiveTasks /\ TaskComplete(t)
         \/ UpdatePlanProgress
     ]_vars
  /\ WF_vars(ExecParallel)
  /\ WF_vars(UpdatePlanProgress)
  /\ \A t \in TaskIds :
       WF_vars(t \in ActiveTasks /\ (SchedCompleteTask(t) \/ TaskComplete(t)))

\* C37 (progress): while the scheduler cycle is run again and again and every
\* assigned task is completed in the end, the scheduler is never stuck: when
\* a task of the plan is not completed, a task is assigned or further (and
\* will be completed), or the next cycle has a task to assign. From a stuck
\* state no cycle and no completion changes the store, so the unfinished
\* tasks never reach completed.
C37_NeverStuck ==
  (/\ StoreGraph(tasks, deps).ok
   /\ \E t \in TaskIds : tasks[t].exists /\ tasks[t].status # "completed")
    => \/ ActiveTasks # {}
       \/ \E n \in 1..worktreeCount :
            getNextBatch(n, initializeScheduler(tasks, deps), worktrees) # <<>>

====
